---- MODULE Spec2Model ----
(***************************************************************************)
(* Follow-up / evaluation flow of chatapp (services.py, views.py,          *)
(* models.py).                                                             *)
(*                                                                         *)
(* The store is the four Django tables.  Every request runs in a slot      *)
(* p \in Procs and advances one database call at a time, so the states     *)
(* between the writes of one request, and the interleavings of two         *)
(* requests, are states of the model.                                      *)
(*                                                                         *)
(* Scores are integers in tenths (6.0 is 60).  A text is represented by    *)
(* what the code measures of it: its word count after strip().split(),     *)
(* its number of '.', '!' and '?', whether it holds a line break, its      *)
(* distinct lower-cased tokens longer than 3 characters, and the tokens    *)
(* that occur in it as substrings.  Tokens are numbered.                   *)
(***************************************************************************)
EXTENDS Integers, Sequences, FiniteSets, TLC

\* ------------------------------------------------------------------------
\* Program constants
\* ------------------------------------------------------------------------
MIN_FOLLOW_UP_COUNT == 1
FOLLOW_UP_COUNT == 8
QUESTION_COUNT == 10
NumCategories == 10
NumTemplates == 46
NumVariations == 4

\* None / NULL of a nullable column, of an optional argument, of an id.
Null == 0 - 1

\* ------------------------------------------------------------------------
\* Bounds of the model
\* ------------------------------------------------------------------------
\* longest followup_pairs list a request carries
MaxPairs == 9
\* number of requests started in one behaviour of Spec and ConcSpec
MaxRequests == 3
\* random.choice draws one of the first MaxVariation variations
MaxVariation == 2
\* the count of finalizing saves of one Answer saturates here
MaxFinalizations == 2
\* longest follow-up score list calculate_average_score is applied to in CalcSpec
MaxScores == 3
\* random.sample draws among the first MaxTemplates question templates
MaxTemplates == 3
\* most qualifying terms of a question, and most of them an answer takes up,
\* in PureSpec
MaxTerms == 10
\* longest sub-dialogue handed to the scorer of the one-shot finalization
MaxDialogue == 5
\* largest numeric target handed to _normalize_followup_target in PureSpec
MaxTarget == 12
\* random.sample starts its walk of the pool at one of the first MaxStart
\* templates in PureSpec
MaxStart == 3

Procs == {1, 2}

Min(a, b) == IF a <= b THEN a ELSE b
Max(a, b) == IF a >= b THEN a ELSE b

\* ------------------------------------------------------------------------
\* Texts
\* ------------------------------------------------------------------------
\* Tokens 1..3 are the terms of the practice question ("explain",
\* "recursion", "detail"); 4 and 5 are the terms of the context suffix a
\* generated prompt ends with; 100 + 10*category + variation is the wording
\* of one follow-up template.
QuestionTerms == {1, 2, 3}
SuffixTerms == {4, 5}

TemplateTerm(category, variation) == 100 + 10 * category + variation

Text(words, endings, newline, terms, contains, category, variation) ==
    [words |-> words, endings |-> endings, newline |-> newline,
     terms |-> terms, contains |-> contains,
     category |-> category, variation |-> variation]

EmptyText == Text(0, 0, FALSE, {}, {}, Null, Null)

\* "Explain recursion in detail"
MainQuestion == Text(4, 0, FALSE, QuestionTerms, QuestionTerms, Null, Null)

\* "It is a function calling itself."
WeakAnswer == Text(6, 1, FALSE, {7}, {7}, Null, Null)

\* "Recursion" 80 times, then " enables divide-and-conquer problem solving."
RepeatedAnswer == Text(84, 1, FALSE, {2, 8}, {2, 8}, Null, Null)

\* at least 75 words in several sentences that take up every question term
StrongAnswer == Text(80, 3, FALSE, QuestionTerms \cup {8}, QuestionTerms \cup {8}, Null, Null)

MainAnswers == {WeakAnswer, StrongAnswer}

\* ------------------------------------------------------------------------
\* Heuristic scorer
\* ------------------------------------------------------------------------
\* Variant of _coverage_penalty: the tiers start above 60% and above 30%
_coverage_penalty_Strict(question, answer) ==
    LET question_terms == question.terms
        matches == Cardinality({term \in question_terms : term \in answer.contains})
        n == Cardinality(question_terms)
    IN  IF question_terms = {} THEN 0
        ELSE IF 10 * matches > 6 * n THEN 0
        ELSE IF 10 * matches > 3 * n THEN 1
        ELSE 2

\* Penalty 0, 1 or 2 by the share of the question's terms found in the answer.
_coverage_penalty(question, answer) ==
    LET question_terms == question.terms
        matches == Cardinality({term \in question_terms : term \in answer.contains})
        n == Cardinality(question_terms)
    IN  IF question_terms = {} THEN 0
        ELSE IF 10 * matches >= 6 * n THEN 0
        ELSE IF 10 * matches >= 3 * n THEN 1
        ELSE 2

\* score >= 8, score >= 5, else
FeedbackTier(score) ==
    IF score >= 80 THEN "strong"
    ELSE IF score >= 50 THEN "reasonable"
    ELSE "shallow"

\* round(raw_score, 1) for raw_score given in sixtieths; the result in tenths.
\* The raw score of the independent scorer is an even number of sixtieths,
\* never half-way between two tenths.
RoundTenths(raw60) == (raw60 + 3) \div 6

\* Variant of evaluate_answer_individually: the length score grows up to
\* 10.0, reached at 150 words
evaluate_answer_individually_LongLength(question_text, answer_text) ==
    LET word_count == answer_text.words
        length_score == Min(600, 4 * word_count)
        coverage_penalty == 60 * _coverage_penalty(question_text, answer_text)
        structure_bonus == (IF answer_text.endings >= 2 THEN 60 ELSE 0)
                           + (IF answer_text.newline THEN 30 ELSE 0)
        raw_score == length_score + structure_bonus - coverage_penalty
        score == Max(0, Min(100, RoundTenths(raw_score)))
    IN  IF word_count = 0
        THEN [score |-> 0, feedback |-> "none"]
        ELSE [score |-> score, feedback |-> FeedbackTier(score)]

\* Variant of evaluate_answer_individually: the score is not held at 0.0
evaluate_answer_individually_NoFloor(question_text, answer_text) ==
    LET word_count == answer_text.words
        length_score == Min(300, 4 * word_count)
        coverage_penalty == 60 * _coverage_penalty(question_text, answer_text)
        structure_bonus == (IF answer_text.endings >= 2 THEN 60 ELSE 0)
                           + (IF answer_text.newline THEN 30 ELSE 0)
        raw_score == length_score + structure_bonus - coverage_penalty
        score == Min(100, RoundTenths(raw_score))
    IN  IF word_count = 0
        THEN [score |-> 0, feedback |-> "none"]
        ELSE [score |-> score, feedback |-> FeedbackTier(score)]

\* Scores one answer against one question: [score, feedback].
evaluate_answer_individually(question_text, answer_text) ==
    LET word_count == answer_text.words
        length_score == Min(300, 4 * word_count)
        coverage_penalty == 60 * _coverage_penalty(question_text, answer_text)
        structure_bonus == (IF answer_text.endings >= 2 THEN 60 ELSE 0)
                           + (IF answer_text.newline THEN 30 ELSE 0)
        raw_score == length_score + structure_bonus - coverage_penalty
        score == Max(0, Min(100, RoundTenths(raw_score)))
    IN  IF word_count = 0
        THEN [score |-> 0, feedback |-> "none"]
        ELSE [score |-> score, feedback |-> FeedbackTier(score)]

RECURSIVE SumSeq(_)
SumSeq(s) == IF s = <<>> THEN 0 ELSE Head(s) + SumSeq(Tail(s))

\* Variant of calculate_average_score: the mean of the follow-up scores alone
calculate_average_score_FollowupsOnly(original_score, followup_scores) ==
    LET total == SumSeq(followup_scores)
        n == Len(followup_scores)
    IN  IF followup_scores = <<>> THEN {original_score}
        ELSE IF (2 * total) % (2 * n) = n
             THEN {total \div n, total \div n + 1}
             ELSE {(2 * total + n) \div (2 * n)}

\* round(sum / len, 1) of the original score and the follow-up scores.  The
\* result is the set of values the rounding can give: one value, or the two
\* neighbouring tenths when the mean is exactly half-way between them (the
\* binary value of the quotient then decides).
calculate_average_score(original_score, followup_scores) ==
    LET total == original_score + SumSeq(followup_scores)
        n == 1 + Len(followup_scores)
    IN  IF followup_scores = <<>> THEN {original_score}
        ELSE IF (2 * total) % (2 * n) = n
             THEN {total \div n, total \div n + 1}
             ELSE {(2 * total + n) \div (2 * n)}

\* The values round(raw_score, 1) can give for raw_score in sixtieths: one
\* value, or the two neighbouring tenths when raw_score is exactly half-way
\* between them (the binary value of the sum then decides).
RoundTenthsSet(raw60) ==
    IF raw60 % 6 = 3 THEN {(raw60 - 3) \div 6, (raw60 + 3) \div 6}
    ELSE {RoundTenths(raw60)}

\* Variant of evaluate_single_answer_with_attachment: the bonus of 0.25 per
\* follow-up pair has no upper limit
evaluate_single_answer_with_attachment_NoCap(question, answer_text, sub_dialogue) ==
    LET word_count == answer_text.words
        length_score == Min(300, 4 * word_count)
        coverage_penalty == 60 * _coverage_penalty(question, answer_text)
        structure_bonus == (IF answer_text.endings >= 2 THEN 60 ELSE 0)
                           + (IF answer_text.newline THEN 30 ELSE 0)
        followup_bonus == IF sub_dialogue = <<>> THEN 0
                          ELSE 15 * Len(sub_dialogue)
        raw_score == length_score + structure_bonus + followup_bonus - coverage_penalty
    IN  IF word_count = 0
        THEN {[score |-> 0, feedback |-> "none"]}
        ELSE {[score |-> Max(0, Min(100, rounded)),
               feedback |-> FeedbackTier(Max(0, Min(100, rounded)))] :
                  rounded \in RoundTenthsSet(raw_score)}

\* The scorer of the one-shot finalization: the independent scorer plus a
\* bonus of 0.25 per follow-up pair, at most 1.0.  The set of evaluations
\* [score, feedback] the rounding can give.
evaluate_single_answer_with_attachment(question, answer_text, sub_dialogue) ==
    LET word_count == answer_text.words
        length_score == Min(300, 4 * word_count)
        coverage_penalty == 60 * _coverage_penalty(question, answer_text)
        structure_bonus == (IF answer_text.endings >= 2 THEN 60 ELSE 0)
                           + (IF answer_text.newline THEN 30 ELSE 0)
        followup_bonus == IF sub_dialogue = <<>> THEN 0
                          ELSE Min(60, 15 * Len(sub_dialogue))
        raw_score == length_score + structure_bonus + followup_bonus - coverage_penalty
    IN  IF word_count = 0
        THEN {[score |-> 0, feedback |-> "none"]}
        ELSE {[score |-> Max(0, Min(100, rounded)),
               feedback |-> FeedbackTier(Max(0, Min(100, rounded)))] :
                  rounded \in RoundTenthsSet(raw_score)}

\* finalize_followups(topic, user, question, main_answer, followup_pairs,
\* language): the names of its keyword-only parameters, and its results.
finalize_followups_parameters ==
    {"topic", "user", "question", "main_answer", "followup_pairs", "language"}

finalize_followups(question, main_answer, followup_pairs) ==
    {[final_score |-> final_eval.score, feedback |-> final_eval.feedback,
      evaluation |-> final_eval] :
        final_eval \in evaluate_single_answer_with_attachment(question, main_answer,
                                                              followup_pairs)}

\* ------------------------------------------------------------------------
\* Follow-up generator
\* ------------------------------------------------------------------------
\* Variant of generate_next_follow_up_question: a category serves two turns
generate_next_follow_up_question_TwoTurns(original_question, asked_count, variation) ==
    LET category_index == (asked_count \div 2) % NumCategories
        terms == {TemplateTerm(category_index, variation)}
                 \cup SuffixTerms \cup original_question.terms
    IN  Text(12 + original_question.words, 1, FALSE, terms, terms,
             category_index, variation)

\* The prompt for asked_count when random.choice draws `variation`: the
\* template of category asked_count % 10, then the context suffix, which
\* quotes the first 60 characters of the original question.
generate_next_follow_up_question(original_question, asked_count, variation) ==
    LET category_index == asked_count % NumCategories
        terms == {TemplateTerm(category_index, variation)}
                 \cup SuffixTerms \cup original_question.terms
    IN  Text(12 + original_question.words, 1, FALSE, terms, terms,
             category_index, variation)

\* Clamp of a caller-provided target: None gives 8; "abc" (modelled as the
\* value NonNumeric) gives 8; a number is clamped into [1, 8].  The float
\* infinity, which json.loads returns for Infinity and for 1e999, makes
\* int() raise OverflowError, which `except (TypeError, ValueError)` does
\* not catch: the result is then the value OverflowError.
NonNumeric == 0 - 1000
Infinity == 0 - 2000
OverflowError == 0 - 3000

_normalize_followup_target(target) ==
    IF target = Null THEN FOLLOW_UP_COUNT
    ELSE IF target = NonNumeric THEN FOLLOW_UP_COUNT
    ELSE IF target = Infinity THEN OverflowError
    ELSE Max(MIN_FOLLOW_UP_COUNT, Min(FOLLOW_UP_COUNT, target))


\* "What is recursion good for?": another wording for a practice question
OtherQuestion == Text(5, 1, FALSE, {2, 9}, {2, 9}, Null, Null)

\* The question that template t gives for the topic
TemplateQuestion(t) == Text(10, 1, FALSE, {200 + t}, {200 + t}, Null, t)

\* random.sample(all_templates, n): n distinct templates in any order
Samples(n) ==
    {selected \in [1..n -> 1..MaxTemplates] :
        \A i, j \in 1..n : selected[i] = selected[j] => i = j}

\* raw_count = payload.get("count") or 10; int(raw_count), 10 when that fails
requested_count(raw_count) ==
    IF raw_count \in {Null, 0, NonNumeric} THEN 10 ELSE raw_count

\* Variant of safe_count: no lower bound
safe_count_NoFloor(count) == Min(count, QUESTION_COUNT)

\* safe_count = max(1, min(count, QUESTION_COUNT))
safe_count(count) == Max(1, Min(count, QUESTION_COUNT))

\* generate_question_set when random.sample draws selected_templates
generate_question_set(selected_templates) ==
    [i \in 1..Len(selected_templates) |-> TemplateQuestion(selected_templates[i])]

\* ------------------------------------------------------------------------
\* Requests
\* ------------------------------------------------------------------------
\* `if answer_id:` -- None and 0 are falsy
Truthy(answer_id) == answer_id # Null /\ answer_id # 0

\* What a client sends as the answer to a follow-up prompt.  Version 1 is a
\* short answer, version 2 a long one with a line break; both take up the
\* wording of the prompt.
PairAnswer(prompt, version) ==
    IF version = 1
    THEN Text(30, 2, FALSE, prompt.terms, prompt.terms, Null, Null)
    ELSE Text(90, 2, TRUE, prompt.terms, prompt.terms, Null, Null)

\* The entry of a followup_pairs list at 0-based index i, as
\* _normalize_followup_pairs hands it on: question and answer both non-empty.
FollowUpPair(i, version) ==
    LET prompt == generate_next_follow_up_question(MainQuestion, i, version)
    IN  [question |-> prompt, answer |-> PairAnswer(prompt, version)]

PairList(k, version) == [i \in 1..k |-> FollowUpPair(i - 1, version)]

SessionKey == [username |-> "alice", topic |-> "algorithms", language |-> "en"]

\* What validation looks at in the JSON body of a request: the type of the
\* root value, the required fields that are missing or empty, the type of
\* followup_pairs ("absent" when the key is not sent) and, for a list, the
\* kind of malformed entry it holds besides its well-formed ones.
Shape(root, missing, followup_pairs, bad_entry) ==
    [root |-> root, missing |-> missing, followup_pairs |-> followup_pairs,
     bad_entry |-> bad_entry]

ValidShape == Shape("object", {}, "list", "none")

\* The validators return the message of the ValidationError they raise, ""
\* when they raise none.
_parse_request_body(shape) ==
    IF shape.root = "invalid" THEN "Request body must be valid JSON."
    ELSE IF shape.root # "object" THEN "Root payload must be a JSON object."
    ELSE ""

_require_fields(shape, fields) ==
    IF shape.missing \cap fields # {}
    THEN "Missing required fields"
    ELSE ""

_normalize_main_answer(shape) ==
    IF "main_answer" \in shape.missing
    THEN "Field 'main_answer' (or alias 'answer') is required."
    ELSE ""

\* Variant of _normalize_followup_pairs: a malformed entry is skipped
_normalize_followup_pairs_SkipEntry(shape) ==
    IF shape.followup_pairs # "list"
    THEN "Field 'followup_pairs' must be a list."
    ELSE ""

\* Variant of _normalize_followup_pairs: a missing list counts as empty
_normalize_followup_pairs_DefaultEmpty(shape) ==
    IF shape.followup_pairs \notin {"list", "absent"}
    THEN "Field 'followup_pairs' must be a list."
    ELSE IF shape.bad_entry = "not_object"
    THEN "Each follow-up entry must be an object."
    ELSE IF shape.bad_entry \in {"no_question", "no_answer"}
    THEN "Follow-up entries need both question and answer."
    ELSE ""

_normalize_followup_pairs(shape) ==
    IF shape.followup_pairs # "list"
    THEN "Field 'followup_pairs' must be a list."
    ELSE IF shape.bad_entry = "not_object"
    THEN "Each follow-up entry must be an object."
    ELSE IF shape.bad_entry \in {"no_question", "no_answer"}
    THEN "Follow-up entries need both question and answer."
    ELSE ""

\* The first ValidationError of the try block of a view: the question-set
\* view requires topic alone; the initial-answer view does not look at
\* followup_pairs, the continuation and one-shot views do.
ValidationError(op, shape) ==
    LET fields == IF op = "generate" THEN {"topic"} ELSE {"topic", "user", "question"}
    IN  IF _parse_request_body(shape) # "" THEN _parse_request_body(shape)
        ELSE IF _require_fields(shape, fields) # "" THEN _require_fields(shape, fields)
        ELSE IF op = "generate" THEN ""
        ELSE IF _normalize_main_answer(shape) # "" THEN _normalize_main_answer(shape)
        ELSE IF op \in {"continue", "finalize"} THEN _normalize_followup_pairs(shape)
        ELSE ""

AnswerPayload(main_answer, question_index) ==
    [op |-> "answer", key |-> SessionKey, question |-> MainQuestion,
     main_answer |-> main_answer, question_index |-> question_index,
     followup_pairs |-> <<>>, target_followups |-> Null, answer_id |-> Null,
     shape |-> Shape("object", {}, "absent", "none")]

ContinuePayload(main_answer, followup_pairs, target_followups, answer_id) ==
    [op |-> "continue", key |-> SessionKey, question |-> MainQuestion,
     main_answer |-> main_answer, question_index |-> Null,
     followup_pairs |-> followup_pairs, target_followups |-> target_followups,
     answer_id |-> answer_id, shape |-> ValidShape]

FinalizePayload(main_answer, followup_pairs, answer_id) ==
    [op |-> "finalize", key |-> SessionKey, question |-> MainQuestion,
     main_answer |-> main_answer, question_index |-> Null,
     followup_pairs |-> followup_pairs, target_followups |-> Null,
     answer_id |-> answer_id, shape |-> ValidShape]

\* The payload of a question-set request
GeneratePayload(count) ==
    [op |-> "generate", key |-> SessionKey, count |-> count,
     shape |-> Shape("object", {}, "absent", "none")]

NoRequest == [op |-> "none"]
NoResponse == [status |-> "none"]
NoRow == [absent |-> TRUE]
EmptyTable == [k \in {} |-> NoRow]

\* ------------------------------------------------------------------------
\* State
\* ------------------------------------------------------------------------
VARIABLES
    sessions,       \* Session table: row i is the key of the Session with id i
    questions,      \* Question table: <<session id, question_index>> -> question_text
    answers,        \* Answer table: row i is the Answer with id i
    followups,      \* FollowUp table: <<answer id, followup_index>> -> row
    finalizations,  \* per Answer: how often the finalizing save has written it
    pc,             \* per slot: the database call the request is at
    req,            \* per slot: the arguments of the request
    local,          \* per slot: the local variables of the service function
    resp,           \* per slot: the response returned
    nreq,           \* number of requests started
    client,         \* the client of ClientSpec: its history of follow-up pairs
    calc            \* CalcSpec and PureSpec: the arguments and the result of
                    \* the function that was applied last

vars == <<sessions, questions, answers, followups, finalizations,
          pc, req, local, resp, nreq, client, calc>>

store == <<sessions, questions, answers, followups, finalizations>>

NoLocal ==
    [session |-> Null, question_obj |-> <<>>, answer_id |-> Null,
     answer_obj |-> NoRow, followup_obj |-> NoRow, idx |-> 0,
     plan_target |-> Null, average_score |-> Null, questions |-> <<>>]

NoCalc == [fn |-> "none", original_score |-> Null, followup_scores |-> <<>>, result |-> Null]

NewClient ==
    [phase |-> "start", pairs |-> <<>>, answer_id |-> Null,
     target_followups |-> Null, calls |-> 0]

Init ==
    /\ sessions = <<>>
    /\ questions = EmptyTable
    /\ answers = <<>>
    /\ followups = EmptyTable
    /\ finalizations = <<>>
    /\ pc = [p \in Procs |-> "idle"]
    /\ req = [p \in Procs |-> NoRequest]
    /\ local = [p \in Procs |-> NoLocal]
    /\ resp = [p \in Procs |-> NoResponse]
    /\ nreq = 0
    /\ client = NewClient
    /\ calc = NoCalc

\* Variant of NewAnswer: target_followups left to the default of the column
NewAnswer_ColumnDefault(question_obj, answer_text) ==
    [question |-> question_obj, answer_text |-> answer_text,
     initial_score |-> Null, final_score |-> Null, average_score |-> Null,
     initial_feedback |-> "", final_feedback |-> <<>>,
     target_followups |-> MIN_FOLLOW_UP_COUNT, completed_followups |-> 0]

\* Answer.objects.create(question=..., answer_text=..., target_followups=8):
\* the other columns take their defaults.
NewAnswer(question_obj, answer_text) ==
    [question |-> question_obj, answer_text |-> answer_text,
     initial_score |-> Null, final_score |-> Null, average_score |-> Null,
     initial_feedback |-> "", final_feedback |-> <<>>,
     target_followups |-> FOLLOW_UP_COUNT, completed_followups |-> 0]

\* FollowUp row as get_or_create creates it from its defaults
NewFollowUp(question_text, answer_text) ==
    [question_text |-> question_text, answer_text |-> answer_text,
     score |-> Null, feedback |-> ""]

AnswerExists(answer_id) == answer_id \in 1..Len(answers)

\* FollowUp.objects.get_or_create(answer, followup_index, defaults), when the
\* row is absent
CreateFollowUp(table, answer_id, followup_index, question_text, answer_text) ==
    table @@ (<<answer_id, followup_index>> :> NewFollowUp(question_text, answer_text))

asked_count(p) == Len(req[p].followup_pairs)

\* No request is being served in slot p: none was made yet ("idle"), or the
\* last one returned 200 ("done"), was rejected with 400 ("rejected") or
\* ended in an uncaught exception ("raised").
Idle(p) == pc[p] \in {"idle", "done", "rejected", "raised"}

\* An exception that no handler of the view or the service catches: the
\* request ends with status 500
Raise(p, exception) ==
    /\ resp' = [resp EXCEPT ![p] = [status |-> 500, exception |-> exception]]
    /\ pc' = [pc EXCEPT ![p] = "raised"]

\* ------------------------------------------------------------------------
\* handle_question_flow
\* ------------------------------------------------------------------------
\* The initial-answer endpoint has validated the payload and calls
\* handle_question_flow.
StartAnswer(p, payload) ==
    /\ Idle(p)
    /\ pc' = [pc EXCEPT ![p] = "hq_session_get"]
    /\ req' = [req EXCEPT ![p] = payload]
    /\ local' = [local EXCEPT ![p] = NoLocal]
    /\ resp' = [resp EXCEPT ![p] = NoResponse]
    /\ UNCHANGED store

\* Session.objects.get_or_create, the lookup: one row, no row, or several
\* rows (MultipleObjectsReturned, caught by `except Exception`).
hq_session_get(p) ==
    /\ pc[p] = "hq_session_get"
    /\ LET matching == {i \in 1..Len(sessions) : sessions[i] = req[p].key}
       IN  IF Cardinality(matching) = 1
           THEN /\ local' = [local EXCEPT ![p].session = CHOOSE i \in matching : TRUE]
                /\ pc' = [pc EXCEPT ![p] = "hq_question"]
           ELSE /\ pc' = [pc EXCEPT ![p] =
                        IF matching = {} THEN "hq_session_create" ELSE "hq_followup"]
                /\ UNCHANGED local
    /\ UNCHANGED <<store, req, resp, nreq, client, calc>>

\* Session.objects.get_or_create, the insert after an empty lookup.  The
\* table has no unique constraint, so the insert always succeeds.
hq_session_create(p) ==
    /\ pc[p] = "hq_session_create"
    /\ sessions' = Append(sessions, req[p].key)
    /\ local' = [local EXCEPT ![p].session = Len(sessions) + 1]
    /\ pc' = [pc EXCEPT ![p] = "hq_question"]
    /\ UNCHANGED <<questions, answers, followups, finalizations, req, resp, nreq, client, calc>>

\* Question.objects.get_or_create(session, question_index or 0, defaults)
hq_question(p) ==
    /\ pc[p] = "hq_question"
    /\ LET question_index == IF req[p].question_index = Null THEN 0
                             ELSE req[p].question_index
           k == <<local[p].session, question_index>>
       IN  /\ questions' = IF k \in DOMAIN questions THEN questions
                           ELSE questions @@ (k :> req[p].question)
           /\ local' = [local EXCEPT ![p].question_obj = k]
    /\ pc' = [pc EXCEPT ![p] = "hq_answer"]
    /\ UNCHANGED <<sessions, answers, followups, finalizations, req, resp, nreq, client, calc>>

\* Answer.objects.create; answer_id = answer_obj.id
hq_answer(p) ==
    /\ pc[p] = "hq_answer"
    /\ answers' = Append(answers, NewAnswer(local[p].question_obj, req[p].main_answer))
    /\ finalizations' = Append(finalizations, 0)
    /\ local' = [local EXCEPT ![p].answer_id = Len(answers) + 1]
    /\ pc' = [pc EXCEPT ![p] = "hq_followup"]
    /\ UNCHANGED <<sessions, questions, followups, req, resp, nreq, client, calc>>

\* Variant of AnswerResponse: followup_index counted from 0
AnswerResponse_ZeroBased(first_followup, answer_id) ==
    [needs_followups |-> TRUE, follow_ups |-> <<first_followup>>,
     followup_index |-> 0, max_followups |-> FOLLOW_UP_COUNT,
     target_followups |-> FOLLOW_UP_COUNT, answer_id |-> answer_id]

\* The response of handle_question_flow
AnswerResponse(first_followup, answer_id) ==
    [needs_followups |-> TRUE, follow_ups |-> <<first_followup>>,
     followup_index |-> 1, max_followups |-> FOLLOW_UP_COUNT,
     target_followups |-> FOLLOW_UP_COUNT, answer_id |-> answer_id]

\* Generates the first prompt, stores it as FollowUp 0 of the new Answer
\* (when there is one) and returns.
hq_followup(p) ==
    /\ pc[p] = "hq_followup"
    /\ \E variation \in 1..MaxVariation :
         LET first_followup == generate_next_follow_up_question(req[p].question, 0, variation)
             answer_id == local[p].answer_id
         IN  /\ followups' =
                  IF Truthy(answer_id) /\ AnswerExists(answer_id)
                     /\ <<answer_id, 0>> \notin DOMAIN followups
                  THEN CreateFollowUp(followups, answer_id, 0, first_followup, EmptyText)
                  ELSE followups
             /\ resp' = [resp EXCEPT ![p] = AnswerResponse(first_followup, answer_id)]
    /\ pc' = [pc EXCEPT ![p] = "done"]
    /\ UNCHANGED <<sessions, questions, answers, finalizations, req, local, nreq, client, calc>>


\* ------------------------------------------------------------------------
\* continue_followups
\* ------------------------------------------------------------------------
\* Variants of should_finalize: the stored plan decides; nine pairs needed
should_finalize_by_target(p) == asked_count(p) >= local[p].plan_target

should_finalize_strict(p) == asked_count(p) > FOLLOW_UP_COUNT

\* should_finalize = asked_count >= FOLLOW_UP_COUNT
should_finalize(p) == asked_count(p) >= FOLLOW_UP_COUNT

\* Variant of original_eval: the answer_text stored with the Answer is scored
original_eval_StoredAnswer(p) ==
    evaluate_answer_individually(req[p].question,
        IF AnswerExists(req[p].answer_id) THEN answers[req[p].answer_id].answer_text
        ELSE req[p].main_answer)

\* original_eval
original_eval(p) == evaluate_answer_individually(req[p].question, req[p].main_answer)

\* followup_evaluations: one evaluation per pair, each answer against its
\* own follow-up question
followup_evaluations(p) ==
    [i \in 1..asked_count(p) |->
        evaluate_answer_individually(req[p].followup_pairs[i].question,
                                     req[p].followup_pairs[i].answer)]

\* followup_scores
followup_scores(p) == [i \in 1..asked_count(p) |-> followup_evaluations(p)[i].score]

\* Variant of AfterStore: the evaluation is returned and never persisted
AfterStore_NoPersist(p) == IF should_finalize(p) THEN "fin_return" ELSE "cf_next"

\* Where the function goes once the pairs are stored (or the Answer was not
\* found, or no answer_id was given).
AfterStore(p) ==
    IF should_finalize(p)
    THEN IF Truthy(req[p].answer_id) THEN "fin_get" ELSE "fin_return"
    ELSE "cf_next"

\* The continuation endpoint has validated the payload and calls
\* continue_followups: the locals computed before the first database call.
StartContinue(p, payload) ==
    /\ Idle(p)
    /\ req' = [req EXCEPT ![p] = payload]
    /\ LET scores == [i \in 1..Len(payload.followup_pairs) |->
                         evaluate_answer_individually(payload.followup_pairs[i].question,
                                                      payload.followup_pairs[i].answer).score]
           original == evaluate_answer_individually(payload.question, payload.main_answer).score
           plan_target == _normalize_followup_target(
                              IF payload.target_followups \in {Null, 0}
                              THEN FOLLOW_UP_COUNT ELSE payload.target_followups)
       IN  IF plan_target = OverflowError
           THEN /\ local' = [local EXCEPT ![p] = NoLocal]
                /\ Raise(p, "OverflowError")
           ELSE /\ \E average \in (IF Len(payload.followup_pairs) >= FOLLOW_UP_COUNT
                                   THEN calculate_average_score(original, scores)
                                   ELSE {Null}) :
                      local' = [local EXCEPT ![p] =
                                   [NoLocal EXCEPT !.answer_id = payload.answer_id,
                                                   !.plan_target = plan_target,
                                                   !.average_score = average]]
                /\ resp' = [resp EXCEPT ![p] = NoResponse]
                /\ pc' = [pc EXCEPT ![p] = "cf_get"]
    /\ UNCHANGED store

\* `if answer_id:` answer_obj = Answer.objects.get(id=answer_id);
\* answer_obj.completed_followups = asked_count.  Without an answer_id, or
\* on Answer.DoesNotExist, nothing is stored.  An answer_id that is not a
\* number ("abc") makes the lookup raise ValueError, which
\* `except Answer.DoesNotExist` does not catch.
cf_get(p) ==
    /\ pc[p] = "cf_get"
    /\ IF req[p].answer_id = NonNumeric
       THEN /\ Raise(p, "ValueError")
            /\ UNCHANGED local
       ELSE /\ IF Truthy(req[p].answer_id) /\ AnswerExists(req[p].answer_id)
               THEN /\ local' = [local EXCEPT
                          ![p].answer_obj = [answers[req[p].answer_id] EXCEPT
                                                !.completed_followups = asked_count(p)],
                          ![p].idx = 0]
                    /\ pc' = [pc EXCEPT ![p] =
                                 IF asked_count(p) = 0 THEN "cf_save" ELSE "cf_upsert"]
               ELSE /\ pc' = [pc EXCEPT ![p] = AfterStore(p)]
                    /\ UNCHANGED local
            /\ UNCHANGED resp
    /\ UNCHANGED <<store, req, nreq, client, calc>>

\* FollowUp.objects.get_or_create for the pair at local idx: creates the row
\* from the pair, or fetches the existing row for the update
cf_upsert(p) ==
    /\ pc[p] = "cf_upsert"
    /\ LET idx == local[p].idx
           pair == req[p].followup_pairs[idx + 1]
           k == <<req[p].answer_id, idx>>
       IN  IF k \notin DOMAIN followups
           THEN /\ followups' = CreateFollowUp(followups, req[p].answer_id, idx,
                                               pair.question, pair.answer)
                /\ local' = [local EXCEPT ![p].idx = idx + 1]
                /\ pc' = [pc EXCEPT ![p] =
                             IF idx + 1 < asked_count(p) THEN "cf_upsert" ELSE "cf_save"]
           ELSE /\ local' = [local EXCEPT ![p].followup_obj = followups[k]]
                /\ pc' = [pc EXCEPT ![p] = "cf_update"]
                /\ UNCHANGED followups
    /\ UNCHANGED <<sessions, questions, answers, finalizations, req, resp, nreq, client, calc>>

\* Variant of cf_update: an existing row keeps the text it was created with
cf_update_KeepFirst(p) ==
    /\ pc[p] = "cf_update"
    /\ LET idx == local[p].idx
       IN  /\ local' = [local EXCEPT ![p].idx = idx + 1]
           /\ pc' = [pc EXCEPT ![p] =
                        IF idx + 1 < asked_count(p) THEN "cf_upsert" ELSE "cf_save"]
    /\ UNCHANGED <<store, req, resp, nreq, client, calc>>

\* followup_obj.question_text / answer_text = pair; followup_obj.save()
\* writes every column of the fetched row
cf_update(p) ==
    /\ pc[p] = "cf_update"
    /\ LET idx == local[p].idx
           pair == req[p].followup_pairs[idx + 1]
           k == <<req[p].answer_id, idx>>
       IN  /\ followups' = [followups EXCEPT ![k] =
                               [local[p].followup_obj EXCEPT
                                   !.question_text = pair.question,
                                   !.answer_text = pair.answer]]
           /\ local' = [local EXCEPT ![p].idx = idx + 1]
           /\ pc' = [pc EXCEPT ![p] =
                        IF idx + 1 < asked_count(p) THEN "cf_upsert" ELSE "cf_save"]
    /\ UNCHANGED <<sessions, questions, answers, finalizations, req, resp, nreq, client, calc>>

\* answer_obj.save() after the loop: writes every column of the row as it
\* was fetched, with completed_followups = asked_count
cf_save(p) ==
    /\ pc[p] = "cf_save"
    /\ answers' = [answers EXCEPT ![req[p].answer_id] = local[p].answer_obj]
    /\ pc' = [pc EXCEPT ![p] = AfterStore(p)]
    /\ UNCHANGED <<sessions, questions, followups, finalizations, req, local, resp, nreq, client, calc>>

\* Finalization: answer_obj = Answer.objects.get(id=answer_id), then the
\* scores and feedback are set on the fetched object
fin_get(p) ==
    /\ pc[p] = "fin_get"
    /\ IF AnswerExists(req[p].answer_id)
       THEN /\ local' = [local EXCEPT ![p].answer_obj =
                  [answers[req[p].answer_id] EXCEPT
                      !.initial_score = original_eval(p).score,
                      !.initial_feedback = original_eval(p).feedback,
                      !.final_score = local[p].average_score,
                      !.average_score = local[p].average_score,
                      !.completed_followups = asked_count(p),
                      !.final_feedback = <<asked_count(p), local[p].average_score>>]]
            /\ pc' = [pc EXCEPT ![p] = "fin_save"]
       ELSE /\ pc' = [pc EXCEPT ![p] = "fin_return"]
            /\ UNCHANGED local
    /\ UNCHANGED <<store, req, resp, nreq, client, calc>>

\* answer_obj.save() of the finalization: the scores of the Answer are
\* persisted
fin_save(p) ==
    /\ pc[p] = "fin_save"
    /\ answers' = [answers EXCEPT ![req[p].answer_id] = local[p].answer_obj]
    /\ finalizations' = [finalizations EXCEPT ![req[p].answer_id] =
                            Min(@ + 1, MaxFinalizations)]
    /\ local' = [local EXCEPT ![p].idx = 0]
    /\ pc' = [pc EXCEPT ![p] = "fin_fget"]
    /\ UNCHANGED <<sessions, questions, followups, req, resp, nreq, client, calc>>

\* followup_obj = FollowUp.objects.get(answer, followup_index=idx);
\* FollowUp.DoesNotExist ends the persistence
fin_fget(p) ==
    /\ pc[p] = "fin_fget"
    /\ LET k == <<req[p].answer_id, local[p].idx>>
       IN  IF k \in DOMAIN followups
           THEN /\ local' = [local EXCEPT ![p].followup_obj = followups[k]]
                /\ pc' = [pc EXCEPT ![p] = "fin_fsave"]
           ELSE /\ pc' = [pc EXCEPT ![p] = "fin_return"]
                /\ UNCHANGED local
    /\ UNCHANGED <<store, req, resp, nreq, client, calc>>

\* followup_obj.score / feedback = the evaluation; followup_obj.save()
fin_fsave(p) ==
    /\ pc[p] = "fin_fsave"
    /\ LET idx == local[p].idx
           k == <<req[p].answer_id, idx>>
           followup_eval == followup_evaluations(p)[idx + 1]
       IN  /\ followups' = [followups EXCEPT ![k] =
                               [local[p].followup_obj EXCEPT
                                   !.score = followup_eval.score,
                                   !.feedback = followup_eval.feedback]]
           /\ local' = [local EXCEPT ![p].idx = idx + 1]
           /\ pc' = [pc EXCEPT ![p] =
                        IF idx + 1 < asked_count(p) THEN "fin_fget" ELSE "fin_return"]
    /\ UNCHANGED <<sessions, questions, answers, finalizations, req, resp, nreq, client, calc>>

\* The finalize response of continue_followups
FinalizeResponse(p) ==
    [needs_followups |-> FALSE,
     final_score |-> local[p].average_score,
     original_score |-> original_eval(p).score,
     followup_scores |-> followup_scores(p),
     average_score |-> local[p].average_score,
     evaluation |-> [original |-> original_eval(p), followups |-> followup_evaluations(p)],
     followup_index |-> asked_count(p),
     max_followups |-> FOLLOW_UP_COUNT,
     target_followups |-> FOLLOW_UP_COUNT]

fin_return(p) ==
    /\ pc[p] = "fin_return"
    /\ resp' = [resp EXCEPT ![p] = FinalizeResponse(p)]
    /\ pc' = [pc EXCEPT ![p] = "done"]
    /\ UNCHANGED <<store, req, local, nreq, client, calc>>

\* The response that asks the next follow-up
NextResponse(next_followup, count) ==
    [needs_followups |-> TRUE, follow_ups |-> <<next_followup>>,
     followup_index |-> count + 1, max_followups |-> FOLLOW_UP_COUNT,
     target_followups |-> FOLLOW_UP_COUNT]

\* Not all follow-ups answered: generates the next prompt, stores it as the
\* FollowUp at index asked_count (when the Answer exists and has no such
\* row) and returns.
cf_next(p) ==
    /\ pc[p] = "cf_next"
    /\ \E variation \in 1..MaxVariation :
         LET next_followup == generate_next_follow_up_question(req[p].question,
                                                               asked_count(p), variation)
             answer_id == req[p].answer_id
         IN  /\ followups' =
                  IF Truthy(answer_id) /\ AnswerExists(answer_id)
                     /\ <<answer_id, asked_count(p)>> \notin DOMAIN followups
                  THEN CreateFollowUp(followups, answer_id, asked_count(p),
                                      next_followup, EmptyText)
                  ELSE followups
             /\ resp' = [resp EXCEPT ![p] = NextResponse(next_followup, asked_count(p))]
    /\ pc' = [pc EXCEPT ![p] = "done"]
    /\ UNCHANGED <<sessions, questions, answers, finalizations, req, local, nreq, client, calc>>

\* One database call of the request in slot p
Step(p) ==
    \/ hq_session_get(p)
    \/ hq_session_create(p)
    \/ hq_question(p)
    \/ hq_answer(p)
    \/ hq_followup(p)
    \/ cf_get(p)
    \/ cf_upsert(p)
    \/ cf_update(p)
    \/ cf_save(p)
    \/ fin_get(p)
    \/ fin_save(p)
    \/ fin_fget(p)
    \/ fin_fsave(p)
    \/ fin_return(p)
    \/ cf_next(p)


\* ------------------------------------------------------------------------
\* Endpoints and specifications
\* ------------------------------------------------------------------------
Targets == {Null, 2}
AnswerIds == {Null, 1, 2}

\* The followup_pairs lists of the requests: every length up to MaxPairs in
\* version 1, and in version 2 a corrected first answer and a corrected
\* full list.
PairLists ==
    {PairList(k, 1) : k \in 0..MaxPairs}
    \cup {PairList(k, 2) : k \in {1, FOLLOW_UP_COUNT}}

\* `except ValidationError`: the view returns status 400 with the message
\* and calls no service function
Reject(p, payload, error) ==
    /\ Idle(p)
    /\ req' = [req EXCEPT ![p] = payload]
    /\ local' = [local EXCEPT ![p] = NoLocal]
    /\ resp' = [resp EXCEPT ![p] = [status |-> 400, error |-> error]]
    /\ pc' = [pc EXCEPT ![p] = "rejected"]
    /\ UNCHANGED store

\* answer_view: validates the payload, then calls handle_question_flow
answer_view(p, payloads) ==
    /\ nreq < MaxRequests
    /\ \E payload \in payloads :
          IF ValidationError("answer", payload.shape) # ""
          THEN Reject(p, payload, ValidationError("answer", payload.shape))
          ELSE StartAnswer(p, payload)
    /\ nreq' = nreq + 1
    /\ UNCHANGED <<client, calc>>

\* continue_followups_view: validates the payload, then calls
\* continue_followups
continue_followups_view(p, payloads) ==
    /\ nreq < MaxRequests
    /\ \E payload \in payloads :
          IF ValidationError("continue", payload.shape) # ""
          THEN Reject(p, payload, ValidationError("continue", payload.shape))
          ELSE StartContinue(p, payload)
    /\ nreq' = nreq + 1
    /\ UNCHANGED <<client, calc>>

\* The keyword arguments finalize_followups_view passes to finalize_followups
finalize_followups_view_keywords ==
    {"topic", "user", "question", "main_answer", "followup_pairs", "language",
     "answer_id"}

\* finalize_followups_view: validates the payload, then calls
\* finalize_followups.  A keyword the function does not take is a TypeError
\* raised by the call, before the function body runs.
finalize_followups_view(p, payloads) ==
    /\ nreq < MaxRequests
    /\ \E payload \in payloads :
          IF ValidationError("finalize", payload.shape) # ""
          THEN Reject(p, payload, ValidationError("finalize", payload.shape))
          ELSE /\ Idle(p)
               /\ req' = [req EXCEPT ![p] = payload]
               /\ local' = [local EXCEPT ![p] = NoLocal]
               /\ IF finalize_followups_view_keywords \subseteq finalize_followups_parameters
                  THEN /\ \E final_result \in finalize_followups(payload.question,
                                                                payload.main_answer,
                                                                payload.followup_pairs) :
                             resp' = [resp EXCEPT ![p] = final_result]
                       /\ pc' = [pc EXCEPT ![p] = "done"]
                  ELSE Raise(p, "TypeError")
               /\ UNCHANGED store
    /\ nreq' = nreq + 1
    /\ UNCHANGED <<client, calc>>

\* The payloads of the requests: every main answer at the initial-answer
\* endpoint; at the continuation endpoint every list, target and answer_id.
AnswerPayloads == {AnswerPayload(main_answer, Null) : main_answer \in MainAnswers}

ContinuePayloads ==
    {ContinuePayload(StrongAnswer, followup_pairs, target_followups, answer_id) :
        followup_pairs \in PairLists, target_followups \in Targets,
        answer_id \in AnswerIds}

\* Requests served one at a time
Next ==
    \/ answer_view(1, AnswerPayloads)
    \/ continue_followups_view(1, ContinuePayloads)
    \/ Step(1)

Spec == Init /\ [][Next]_vars

\* Two requests in flight, their database calls interleaved
ConcPairLists == {PairList(k, 1) : k \in {0, 1, FOLLOW_UP_COUNT}}

ConcPayloads ==
    {ContinuePayload(StrongAnswer, followup_pairs, Null, 1) :
        followup_pairs \in ConcPairLists}

ConcNext ==
    \E p \in Procs :
        \/ answer_view(p, {AnswerPayload(StrongAnswer, Null)})
        \/ continue_followups_view(p, ConcPayloads)
        \/ Step(p)

ConcSpec == Init /\ [][ConcNext]_vars

\* ------------------------------------------------------------------------
\* The three endpoints with malformed and well-formed payloads
\* ------------------------------------------------------------------------
\* One fault per shape: a root that is not an object, a body that is not
\* JSON, one required field missing, followup_pairs missing or of another
\* type, one malformed entry in the list.
InvalidRootShapes ==
    {Shape(root, {}, "absent", "none") : root \in {"array", "invalid"}}

MissingFieldShapes ==
    {Shape("object", {field}, "absent", "none") :
        field \in {"topic", "user", "question", "main_answer"}}

InvalidPairsShapes ==
    {Shape("object", {}, followup_pairs, "none") : followup_pairs \in {"absent", "string"}}
    \cup {Shape("object", {}, "list", bad_entry) :
             bad_entry \in {"not_object", "no_question", "no_answer"}}

\* The payload with the given shape: followup_pairs keeps the well-formed
\* entries of a list and is empty when no list was sent.
Malformed(payload, shape) ==
    [payload EXCEPT !.shape = shape,
                    !.followup_pairs = IF shape.followup_pairs = "list" THEN @ ELSE <<>>]

ViewAnswerPayloads ==
    {AnswerPayload(StrongAnswer, Null)}
    \cup {Malformed(AnswerPayload(StrongAnswer, Null), shape) :
             shape \in InvalidRootShapes \cup MissingFieldShapes}

ViewContinuePayloads ==
    {ContinuePayload(StrongAnswer, followup_pairs, Null, answer_id) :
        followup_pairs \in ConcPairLists, answer_id \in {Null, 1}}
    \cup {ContinuePayload(StrongAnswer, PairList(1, 1), Null, NonNumeric),
          ContinuePayload(StrongAnswer, PairList(1, 1), Infinity, 1)}
    \cup {Malformed(ContinuePayload(StrongAnswer, PairList(1, 1), Null, 1), shape) :
             shape \in InvalidRootShapes \cup MissingFieldShapes \cup InvalidPairsShapes}

ViewFinalizePayloads ==
    {FinalizePayload(main_answer, followup_pairs, answer_id) :
        main_answer \in MainAnswers, followup_pairs \in ConcPairLists,
        answer_id \in {Null, 1}}
    \cup {Malformed(FinalizePayload(StrongAnswer, PairList(1, 1), 1), shape) :
             shape \in InvalidRootShapes \cup MissingFieldShapes \cup InvalidPairsShapes}

ViewNext ==
    \/ answer_view(1, ViewAnswerPayloads)
    \/ continue_followups_view(1, ViewContinuePayloads)
    \/ finalize_followups_view(1, ViewFinalizePayloads)
    \/ Step(1)

ViewSpec == Init /\ [][ViewNext]_vars

\* ------------------------------------------------------------------------
\* The store can be unavailable
\* ------------------------------------------------------------------------
\* The request in slot p is about to make a database call
DatabaseCall(p) ==
    \/ pc[p] \in {"hq_session_get", "hq_session_create", "hq_question", "hq_answer"}
    \/ pc[p] = "hq_followup" /\ Truthy(local[p].answer_id)
    \/ pc[p] \in {"cf_get", "cf_next"} /\ Truthy(req[p].answer_id)
    \/ pc[p] \in {"cf_upsert", "cf_update", "cf_save",
                  "fin_get", "fin_save", "fin_fget", "fin_fsave"}

\* The database call the request is at raises OperationalError.  The first
\* try block of handle_question_flow has `except Exception` and goes on
\* without an answer_id; every other try block catches only DoesNotExist,
\* so the error leaves the service function and the view.
db_error(p) ==
    /\ DatabaseCall(p)
    /\ IF pc[p] \in {"hq_session_get", "hq_session_create", "hq_question", "hq_answer"}
       THEN /\ pc' = [pc EXCEPT ![p] = "hq_followup"]
            /\ UNCHANGED resp
       ELSE Raise(p, "OperationalError")
    /\ UNCHANGED <<store, req, local, nreq, client, calc>>

FaultPayloads ==
    {ContinuePayload(StrongAnswer, followup_pairs, Null, answer_id) :
        followup_pairs \in ConcPairLists, answer_id \in {Null, 1}}

FaultNext ==
    \/ answer_view(1, {AnswerPayload(StrongAnswer, Null)})
    \/ continue_followups_view(1, FaultPayloads)
    \/ Step(1)
    \/ db_error(1)

FaultSpec == Init /\ [][FaultNext]_vars

\* ------------------------------------------------------------------------
\* calculate_average_score applied to lists of scores
\* ------------------------------------------------------------------------
\* Scores as the scorers return them, in tenths: 0.0, 1.5, 2.0, 3.0, 6.5, 10.0
CalcScores == {0, 15, 20, 30, 65, 100}

CalcInit ==
    /\ sessions = <<>>
    /\ questions = EmptyTable
    /\ answers = <<>>
    /\ followups = EmptyTable
    /\ finalizations = <<>>
    /\ pc = [p \in Procs |-> "idle"]
    /\ req = [p \in Procs |-> NoRequest]
    /\ local = [p \in Procs |-> NoLocal]
    /\ resp = [p \in Procs |-> NoResponse]
    /\ nreq = 0
    /\ client = NewClient
    /\ calc \in {[NoCalc EXCEPT !.original_score = original_score] :
                    original_score \in CalcScores}

\* One more follow-up score in the argument list
calc_append(score) ==
    /\ Len(calc.followup_scores) < MaxScores
    /\ calc' = [calc EXCEPT !.followup_scores = Append(@, score), !.result = Null]
    /\ UNCHANGED <<store, pc, req, local, resp, nreq, client>>

\* calculate_average_score(original_score, followup_scores)
calc_apply ==
    /\ calc.result = Null
    /\ \E result \in calculate_average_score(calc.original_score, calc.followup_scores) :
          calc' = [calc EXCEPT !.result = result]
    /\ UNCHANGED <<store, pc, req, local, resp, nreq, client>>

CalcNext ==
    \/ \E score \in CalcScores : calc_append(score)
    \/ calc_apply

CalcSpec == CalcInit /\ [][CalcNext]_vars

\* ------------------------------------------------------------------------
\* Question sets
\* ------------------------------------------------------------------------
\* generate_questions_view: validates the payload, takes count (10 when it
\* is missing, 0 or not a number), has the generator draw the questions and
\* starts to save them.
generate_questions_view(p, payloads) ==
    /\ nreq < MaxRequests
    /\ \E payload \in payloads :
          IF ValidationError("generate", payload.shape) # ""
          THEN Reject(p, payload, ValidationError("generate", payload.shape))
          ELSE LET count == requested_count(payload.count)
               IN  /\ Idle(p)
                   /\ \E selected_templates \in Samples(safe_count(count)) :
                         local' = [local EXCEPT ![p] =
                                      [NoLocal EXCEPT !.questions =
                                          generate_question_set(selected_templates)]]
                   /\ req' = [req EXCEPT ![p] = payload]
                   /\ resp' = [resp EXCEPT ![p] = NoResponse]
                   /\ pc' = [pc EXCEPT ![p] = "gq_session_get"]
                   /\ UNCHANGED store
    /\ nreq' = nreq + 1
    /\ UNCHANGED <<client, calc>>

\* Session.objects.get_or_create, the lookup; MultipleObjectsReturned is
\* caught by `except Exception` and nothing is saved
gq_session_get(p) ==
    /\ pc[p] = "gq_session_get"
    /\ LET matching == {i \in 1..Len(sessions) : sessions[i] = req[p].key}
       IN  IF Cardinality(matching) = 1
           THEN /\ local' = [local EXCEPT ![p].session = CHOOSE i \in matching : TRUE,
                                          ![p].idx = 0]
                /\ pc' = [pc EXCEPT ![p] = "gq_question"]
           ELSE /\ pc' = [pc EXCEPT ![p] =
                        IF matching = {} THEN "gq_session_create" ELSE "gq_return"]
                /\ UNCHANGED local
    /\ UNCHANGED <<store, req, resp, nreq, client, calc>>

\* Session.objects.get_or_create, the insert
gq_session_create(p) ==
    /\ pc[p] = "gq_session_create"
    /\ sessions' = Append(sessions, req[p].key)
    /\ local' = [local EXCEPT ![p].session = Len(sessions) + 1, ![p].idx = 0]
    /\ pc' = [pc EXCEPT ![p] = "gq_question"]
    /\ UNCHANGED <<questions, answers, followups, finalizations, req, resp, nreq, client, calc>>

\* Variant of gq_question: the text of an existing row is replaced
gq_question_Overwrite(p) ==
    /\ pc[p] = "gq_question"
    /\ LET idx == local[p].idx
           k == <<local[p].session, idx>>
       IN  /\ questions' = [j \in DOMAIN questions \cup {k} |->
                               IF j = k THEN local[p].questions[idx + 1] ELSE questions[j]]
           /\ local' = [local EXCEPT ![p].idx = idx + 1]
           /\ pc' = [pc EXCEPT ![p] =
                        IF idx + 1 < Len(local[p].questions) THEN "gq_question"
                        ELSE "gq_return"]
    /\ UNCHANGED <<sessions, answers, followups, finalizations, req, resp, nreq, client, calc>>

\* Question.objects.get_or_create(session, question_index=idx, defaults) for
\* the question at local idx
gq_question(p) ==
    /\ pc[p] = "gq_question"
    /\ LET idx == local[p].idx
           k == <<local[p].session, idx>>
       IN  /\ questions' = IF k \in DOMAIN questions THEN questions
                           ELSE questions @@ (k :> local[p].questions[idx + 1])
           /\ local' = [local EXCEPT ![p].idx = idx + 1]
           /\ pc' = [pc EXCEPT ![p] =
                        IF idx + 1 < Len(local[p].questions) THEN "gq_question"
                        ELSE "gq_return"]
    /\ UNCHANGED <<sessions, answers, followups, finalizations, req, resp, nreq, client, calc>>

\* The response of generate_questions_view
gq_return(p) ==
    /\ pc[p] = "gq_return"
    /\ resp' = [resp EXCEPT ![p] =
                   [count |-> Len(local[p].questions), questions |-> local[p].questions]]
    /\ pc' = [pc EXCEPT ![p] = "done"]
    /\ UNCHANGED <<store, req, local, nreq, client, calc>>

\* One database call of the question-set request in slot p
GenerateStep(p) ==
    \/ gq_session_get(p)
    \/ gq_session_create(p)
    \/ gq_question(p)
    \/ gq_return(p)

\* A negative count (one question is drawn) and a count of 2; initial
\* submissions that name question 0 with one wording and question 1 with
\* another
Counts == {0 - 5, 2}

GeneratePayloads == {GeneratePayload(count) : count \in Counts}

QuestionAnswerPayloads ==
    {AnswerPayload(StrongAnswer, Null),
     [AnswerPayload(StrongAnswer, 1) EXCEPT !.question = OtherQuestion]}

QuestionNext ==
    \/ generate_questions_view(1, GeneratePayloads)
    \/ answer_view(1, QuestionAnswerPayloads)
    \/ GenerateStep(1)
    \/ hq_session_get(1)
    \/ hq_session_create(1)
    \/ hq_question(1)
    \/ hq_answer(1)
    \/ hq_followup(1)

QuestionSpec == Init /\ [][QuestionNext]_vars

\* Initial submissions and question-set generations of one user, topic and
\* language in two slots, their database calls interleaved
SessionNext ==
    \E p \in Procs :
        \/ answer_view(p, {AnswerPayload(StrongAnswer, Null)})
        \/ generate_questions_view(p, {GeneratePayload(0 - 5)})
        \/ hq_session_get(p)
        \/ hq_session_create(p)
        \/ hq_question(p)
        \/ hq_answer(p)
        \/ hq_followup(p)
        \/ GenerateStep(p)

SessionSpec == Init /\ [][SessionNext]_vars

\* ------------------------------------------------------------------------
\* The same history sent twice
\* ------------------------------------------------------------------------
\* Two slots take initial submissions of the weak answer and continuation
\* requests that carry the strong answer with one pair or the full list of
\* eight, with and without the id of Answer 1; their database calls
\* interleave.
ReplayPayloads ==
    {ContinuePayload(StrongAnswer, followup_pairs, Null, answer_id) :
        followup_pairs \in {PairList(1, 1), PairList(FOLLOW_UP_COUNT, 1)},
        answer_id \in {Null, 1}}

ReplayNext ==
    \E p \in Procs :
        \/ answer_view(p, {AnswerPayload(WeakAnswer, Null)})
        \/ continue_followups_view(p, ReplayPayloads)
        \/ Step(p)

ReplaySpec == Init /\ [][ReplayNext]_vars

\* ------------------------------------------------------------------------
\* The pure functions applied to inputs of every kind
\* ------------------------------------------------------------------------
\* Each behaviour applies one function once, to arguments of every kind.
\* A question with n qualifying terms (1..n), and answers of several
\* lengths and structures that take up the first m of them.
PureQuestions == {Text(n, 0, FALSE, 1..n, 1..n, Null, Null) : n \in 0..MaxTerms}

WordCounts == {0, 1, 3, 6, 14, 15, 45, 74, 75, 80, 150}

PureAnswers ==
    {Text(words, endings, newline, {}, 1..m, Null, Null) :
        words \in WordCounts, endings \in 0..2, newline \in BOOLEAN, m \in 0..MaxTerms}

\* Targets as a caller can send them: missing, a string, infinity, numbers
\* below, inside and above [1, 8]
PureTargets == {Null, NonNumeric, Infinity} \cup {0 - 2} \cup 0..MaxTarget

\* Counts below, inside and above [1, 10], a missing count and a string
PureCounts == {Null, NonNumeric, 0 - 5, 0, 1, 2, 7, 10, 11, 25}

\* random.sample(all_templates, n): the draws that start at one template of
\* the pool and go on with a fixed stride, which never come back to a
\* template before n = 46
SampleWalks(n) ==
    {[i \in 1..n |-> ((start + (i - 1) * stride) % NumTemplates) + 1] :
        start \in 0..(MaxStart - 1), stride \in {1, 3, 5}}

apply_coverage_penalty ==
    /\ calc.fn = "none"
    /\ \E question \in PureQuestions, answer \in PureAnswers :
          calc' = [fn |-> "_coverage_penalty", question |-> question, answer |-> answer,
                   result |-> _coverage_penalty(question, answer)]
    /\ UNCHANGED <<store, pc, req, local, resp, nreq, client>>

apply_evaluate_answer_individually ==
    /\ calc.fn = "none"
    /\ \E question \in PureQuestions, answer \in PureAnswers :
          calc' = [fn |-> "evaluate_answer_individually",
                   question |-> question, answer |-> answer,
                   result |-> evaluate_answer_individually(question, answer)]
    /\ UNCHANGED <<store, pc, req, local, resp, nreq, client>>

apply_evaluate_single_answer_with_attachment ==
    /\ calc.fn = "none"
    /\ \E question \in PureQuestions, answer \in PureAnswers, k \in 0..MaxDialogue :
          \E result \in evaluate_single_answer_with_attachment(question, answer,
                                                               PairList(k, 1)) :
             calc' = [fn |-> "evaluate_single_answer_with_attachment",
                      question |-> question, answer |-> answer, sub_dialogue |-> k,
                      result |-> result]
    /\ UNCHANGED <<store, pc, req, local, resp, nreq, client>>

apply_normalize_followup_target ==
    /\ calc.fn = "none"
    /\ \E target \in PureTargets :
          calc' = [fn |-> "_normalize_followup_target", target |-> target,
                   result |-> _normalize_followup_target(target)]
    /\ UNCHANGED <<store, pc, req, local, resp, nreq, client>>

\* The question-set endpoint takes count from the payload and calls
\* generate_question_set
apply_generate_question_set ==
    /\ calc.fn = "none"
    /\ \E raw_count \in PureCounts :
          \E selected_templates \in SampleWalks(safe_count(requested_count(raw_count))) :
             calc' = [fn |-> "generate_question_set", raw_count |-> raw_count,
                      count |-> requested_count(raw_count),
                      result |-> generate_question_set(selected_templates)]
    /\ UNCHANGED <<store, pc, req, local, resp, nreq, client>>

\* finalize_followups with a main answer and a list of k pairs, the pairs
\* in one of two wordings
apply_finalize_followups ==
    /\ calc.fn = "none"
    /\ \E question \in PureQuestions, main_answer \in PureAnswers,
          k \in 0..MaxDialogue, version \in 1..2 :
          \E result \in finalize_followups(question, main_answer, PairList(k, version)) :
             calc' = [fn |-> "finalize_followups", question |-> question,
                      main_answer |-> main_answer,
                      followup_pairs |-> PairList(k, version), result |-> result]
    /\ UNCHANGED <<store, pc, req, local, resp, nreq, client>>

\* Answers at the ends of every part of the score: one word, the words
\* where the length score stops growing and beyond, with and without the
\* structure bonuses, taking up all or none of the question
AverageAnswers ==
    {Text(words, endings, newline, {}, 1..m, Null, Null) :
        words \in {1, 75, 150}, endings \in {0, 2}, newline \in BOOLEAN,
        m \in {0, MaxTerms}}

\* calculate_average_score as continue_followups calls it: on the score of
\* the original answer and the scores of the follow-up answers, each given
\* by evaluate_answer_individually
apply_calculate_average_score ==
    /\ calc.fn = "none"
    /\ \E question \in PureQuestions, k \in 1..MaxScores,
          original \in AverageAnswers, first \in AverageAnswers, rest \in AverageAnswers :
          LET score_of_original == evaluate_answer_individually(question, original).score
              scores_of_followups ==
                  [i \in 1..k |->
                      evaluate_answer_individually(question,
                                                   IF i = 1 THEN first ELSE rest).score]
          IN  \E result \in calculate_average_score(score_of_original, scores_of_followups) :
                 calc' = [fn |-> "calculate_average_score",
                          original_score |-> score_of_original,
                          followup_scores |-> scores_of_followups, result |-> result]
    /\ UNCHANGED <<store, pc, req, local, resp, nreq, client>>

PureNext ==
    \/ apply_coverage_penalty
    \/ apply_evaluate_answer_individually
    \/ apply_evaluate_single_answer_with_attachment
    \/ apply_normalize_followup_target
    \/ apply_generate_question_set
    \/ apply_finalize_followups
    \/ apply_calculate_average_score

PureSpec == Init /\ [][PureNext]_vars

\* ------------------------------------------------------------------------
\* A client that follows the flow
\* ------------------------------------------------------------------------
\* The client submits its answer to the practice question.
client_submit(p) ==
    /\ client.phase = "start"
    /\ \E main_answer \in MainAnswers, target_followups \in Targets :
          /\ StartAnswer(p, AnswerPayload(main_answer, Null))
          /\ client' = [client EXCEPT !.phase = "talking",
                                      !.target_followups = target_followups]
    /\ UNCHANGED <<nreq, calc>>

\* The client answers the prompt of the last response and sends the whole
\* history again, with the answer_id of the first response.
client_continue(p) ==
    /\ client.phase = "talking"
    /\ pc[p] = "done"
    /\ resp[p].needs_followups
    /\ LET prompt == resp[p].follow_ups[1]
           pairs == Append(client.pairs,
                           [question |-> prompt, answer |-> PairAnswer(prompt, 1)])
           answer_id == IF client.calls = 0 THEN resp[p].answer_id ELSE client.answer_id
       IN  /\ StartContinue(p, ContinuePayload(req[p].main_answer, pairs,
                                               client.target_followups, answer_id))
           /\ client' = [client EXCEPT !.pairs = pairs, !.answer_id = answer_id,
                                       !.calls = client.calls + 1]
    /\ UNCHANGED <<nreq, calc>>

ClientNext ==
    \/ client_submit(1)
    \/ client_continue(1)
    \/ Step(1)

ClientSpec == Init /\ [][ClientNext]_vars

\* ------------------------------------------------------------------------
\* Properties
\* ------------------------------------------------------------------------
Returned(p, op) == pc[p] = "done" /\ req[p].op = op

AnswerIdsInStore == 1..Len(answers)

\* The FollowUp rows of one Answer
RowsOf(answer_id) == {k \in DOMAIN followups : k[1] = answer_id}

C2_StrongAnswerShortCircuits ==
    \A p \in Procs :
        (/\ Returned(p, "answer")
         /\ evaluate_answer_individually(req[p].question, req[p].main_answer).score >= 50)
        => /\ resp[p].needs_followups = FALSE
           /\ "final_score" \in DOMAIN resp[p]
           /\ resp[p].final_score >= 50
           /\ resp[p].follow_ups = <<>>

\* C3: continue_followups with k pairs asks the next follow-up (one prompt,
\* followup_index k+1) when k < 8 and returns the finalize shape when k >= 8,
\* for every target_followups value the request carries.
C3_DecisionByCountOnly ==
    \A p \in Procs :
        Returned(p, "continue") =>
            LET k == Len(req[p].followup_pairs)
            IN  IF k < 8
                THEN /\ resp[p].needs_followups = TRUE
                     /\ Len(resp[p].follow_ups) = 1
                     /\ resp[p].followup_index = k + 1
                ELSE /\ resp[p].needs_followups = FALSE
                     /\ "final_score" \in DOMAIN resp[p]

C3_Witness ==
    /\ Returned(1, "continue")
    /\ req[1].target_followups = 2
    /\ Len(req[1].followup_pairs) = 3
    /\ resp[1].needs_followups
    /\ resp[1].followup_index = 4

\* C4: the client that answers every prompt and resubmits the whole list
\* sees followup_index 1, 2, ..., 8 with needs_followups true (1 from the
\* initial submission, j+1 from its j-th continue call, j < 8), and is
\* finalized by its 8th continue call and by no earlier one.
C4_ClientSequence ==
    /\ client.calls <= 8
    /\ (client.phase = "talking" /\ pc[1] = "done") =>
          IF client.calls < 8
          THEN /\ resp[1].needs_followups = TRUE
               /\ Len(resp[1].follow_ups) = 1
               /\ resp[1].followup_index = client.calls + 1
          ELSE resp[1].needs_followups = FALSE

C4_Witness ==
    /\ client.calls = 8
    /\ pc[1] = "done"
    /\ resp[1].needs_followups = FALSE
    /\ Len(client.pairs) = 8

\* C5: completed_followups of every Answer is at most 8 in every state of
\* the store.
C5_CompletedAtMostEight ==
    \A a \in AnswerIdsInStore : answers[a].completed_followups <= 8

\* C6: in every state of the store, the states between the writes of a
\* finalizing request included, no Answer has final_score set while one of
\* its FollowUp rows has a null score.
C6_NoFinalScoreWithUnscoredRow ==
    \A a \in AnswerIdsInStore :
        answers[a].final_score # Null =>
            \A k \in RowsOf(a) : followups[k].score # Null

\* C7: the final and average scores of an Answer are persisted at most once,
\* over any sequence of continuation requests for it.
C7_FinalizedAtMostOnce ==
    \A a \in AnswerIdsInStore : finalizations[a] <= 1

\* C8: a step that creates the FollowUp row at index i of an Answer finds the
\* rows at all indices 0..i-1 of that Answer in the store, under any
\* interleaving of the requests.
C8_SequentialCreation ==
    [][\A k \in (DOMAIN followups') \ (DOMAIN followups) :
          \A j \in 0..(k[2] - 1) : <<k[1], j>> \in DOMAIN followups]_vars

\* C9: once a continue_followups call with 8 pairs and the id of an existing
\* Answer has returned, the Answer has initial_score, final_score and
\* average_score set, final_score equals average_score, and each of its
\* FollowUp rows 0..7 has a score.
C9_FinalizedAnswerIsScored ==
    \A p \in Procs :
        (/\ Returned(p, "continue")
         /\ Len(req[p].followup_pairs) = 8
         /\ AnswerExists(req[p].answer_id))
        => LET a == answers[req[p].answer_id]
           IN  /\ a.initial_score # Null
               /\ a.final_score # Null
               /\ a.average_score # Null
               /\ a.final_score = a.average_score
               /\ \A i \in 0..7 :
                     /\ <<req[p].answer_id, i>> \in DOMAIN followups
                     /\ followups[<<req[p].answer_id, i>>].score # Null

C9_Witness ==
    /\ Returned(1, "continue")
    /\ Len(req[1].followup_pairs) = 8
    /\ AnswerExists(req[1].answer_id)
    /\ answers[req[1].answer_id].final_score # Null
    /\ followups[<<req[1].answer_id, 7>>].score # Null

\* C10: every finalize response of continue_followups carries exactly 8
\* follow-up scores.
C10_EightFollowupScores ==
    \A p \in Procs :
        (Returned(p, "continue") /\ resp[p].needs_followups = FALSE)
        => Len(resp[p].followup_scores) = 8

\* C12: once a continue_followups call for an existing Answer has returned,
\* the FollowUp row at every submitted index exists once (the table is keyed
\* by answer and followup_index) and holds the question and answer text of
\* that call, whatever an earlier submission had stored there.
C12_LastWriteWins ==
    \A p \in Procs :
        (Returned(p, "continue") /\ AnswerExists(req[p].answer_id))
        => \A i \in 1..Len(req[p].followup_pairs) :
              LET k == <<req[p].answer_id, i - 1>>
              IN  /\ k \in DOMAIN followups
                  /\ followups[k].question_text = req[p].followup_pairs[i].question
                  /\ followups[k].answer_text = req[p].followup_pairs[i].answer

\* A resubmission: row 0 carries the score that the finalization of an
\* earlier list gave its first answer, and the text of the corrected answer.
C12_Witness ==
    /\ Returned(1, "continue")
    /\ req[1].answer_id = 1
    /\ req[1].followup_pairs = PairList(1, 2)
    /\ <<1, 0>> \in DOMAIN followups
    /\ followups[<<1, 0>>].score =
          evaluate_answer_individually(PairList(1, 1)[1].question,
                                       PairList(1, 1)[1].answer).score
    /\ followups[<<1, 0>>].answer_text = PairList(1, 2)[1].answer

C14_ClampedTargetStored ==
    \A p \in Procs :
        (/\ Returned(p, "continue")
         /\ AnswerExists(req[p].answer_id)
         /\ req[p].target_followups # Null)
        => answers[req[p].answer_id].target_followups =
              _normalize_followup_target(req[p].target_followups)

\* A payload that meets the schema of its endpoint: a JSON object with
\* topic, user, question and main_answer, and, at the continuation and
\* one-shot endpoints, a followup_pairs list of well-formed entries.
WellFormed(payload) ==
    /\ payload.shape.root = "object"
    /\ payload.shape.missing = {}
    /\ payload.op \in {"continue", "finalize"} =>
          /\ payload.shape.followup_pairs = "list"
          /\ payload.shape.bad_entry = "none"

\* The request in slot p has ended: returned, rejected or raised
Ended(p) == pc[p] \in {"done", "rejected", "raised"}

\* C15: every one-shot finalize request with a well-formed payload ends with
\* a success response that carries final_score, feedback and evaluation.
C15_FinalizeSucceeds ==
    \A p \in Procs :
        (req[p].op = "finalize" /\ WellFormed(req[p]) /\ Ended(p))
        => /\ pc[p] = "done"
           /\ {"final_score", "feedback", "evaluation"} \subseteq DOMAIN resp[p]

\* C16: the step that takes in a request whose payload does not meet the
\* schema (root not an object, required field missing, followup_pairs not a
\* list, one malformed entry in the list) ends the request with status 400
\* and an error message, runs no step of a flow and leaves every table as
\* it was.
C16_InvalidRequestRejected ==
    [][\A p \in Procs :
          (nreq' # nreq /\ req'[p].op # "none" /\ ~WellFormed(req'[p]))
          => /\ pc'[p] = "rejected"
             /\ resp'[p].status = 400
             /\ resp'[p].error # ""
             /\ store' = store]_vars

\* A continuation request for the existing Answer 1 whose list holds one
\* entry without an answer: rejected, Answer 1 and its rows as the initial
\* submission left them.
C16_Witness ==
    /\ pc[1] = "rejected"
    /\ req[1].op = "continue"
    /\ req[1].shape.bad_entry = "no_answer"
    /\ req[1].answer_id = 1
    /\ Len(answers) = 1
    /\ answers[1].completed_followups = 0
    /\ RowsOf(1) = {<<1, 0>>}

\* C17 as stated: a continuation request that omits followup_pairs is
\* accepted and handled as a continuation with no answered follow-up
\* (needs_followups true, followup_index 1).
C17_MissingPairsDefaultEmpty ==
    \A p \in Procs :
        (/\ req[p].op = "continue"
         /\ req[p].shape = Shape("object", {}, "absent", "none")
         /\ Ended(p))
        => /\ pc[p] = "done"
           /\ resp[p].needs_followups = TRUE
           /\ resp[p].followup_index = 1

\* C17 amended: at the continuation endpoint followup_pairs is required.  A
\* request that omits it is rejected with status 400 and the message that
\* the field must be a list; a request that sends the empty list is handled
\* as a continuation with no answered follow-up (needs_followups true,
\* followup_index 1).
C17_MissingPairsRejected ==
    \A p \in Procs :
        /\ (/\ req[p].op = "continue"
            /\ req[p].shape = Shape("object", {}, "absent", "none"))
           => /\ pc[p] = "rejected"
              /\ resp[p].status = 400
              /\ resp[p].error = "Field 'followup_pairs' must be a list."
        /\ (/\ Returned(p, "continue")
            /\ req[p].shape = ValidShape
            /\ req[p].followup_pairs = <<>>)
           => /\ resp[p].needs_followups = TRUE
              /\ resp[p].followup_index = 1

C17_Witness ==
    /\ pc[1] = "rejected"
    /\ req[1].op = "continue"
    /\ req[1].shape = Shape("object", {}, "absent", "none")
    /\ resp[1].status = 400
    /\ Len(answers) = 1

\* C11: no request of the initial-submission and continuation flows ends in
\* an exception, whichever database call fails and however it fails.
C11_PersistenceFailuresSwallowed ==
    \A p \in Procs :
        req[p].op \in {"answer", "continue"} => pc[p] # "raised"

\* C18: calculate_average_score returns original_score when the follow-up
\* list is empty; otherwise a tenth nearest to the mean of original_score
\* and all follow-up scores; and s when every score equals s.
C18_AverageIsRoundedMean ==
    calc.result # Null =>
        LET n == 1 + Len(calc.followup_scores)
            total == calc.original_score + SumSeq(calc.followup_scores)
            distance == IF n * calc.result >= total THEN n * calc.result - total
                        ELSE total - n * calc.result
        IN  /\ calc.followup_scores = <<>> => calc.result = calc.original_score
            /\ 2 * distance <= n
            /\ (\A i \in 1..Len(calc.followup_scores) :
                   calc.followup_scores[i] = calc.original_score)
               => calc.result = calc.original_score

\* 6.5 with follow-up scores 2.0, 3.0 and 10.0: the mean 5.375 gives 5.4
C18_Witness ==
    /\ calc.original_score = 65
    /\ calc.followup_scores = <<20, 30, 100>>
    /\ calc.result = 54

\* C19: no step changes or removes a Question row: a submission for a
\* (session, question_index) pair that has a row, from the initial-answer
\* flow or from question-set generation, with the same text or another,
\* creates no row and leaves question_text as it is; a step adds at most the
\* one row of a pair that had none.
C19_QuestionRowsKept ==
    [][/\ \A k \in DOMAIN questions :
             k \in DOMAIN questions' /\ questions'[k] = questions[k]
       /\ \A p \in Procs :
             (pc[p] \in {"hq_question", "gq_question"} /\ local'[p] # local[p])
             => Cardinality((DOMAIN questions') \ (DOMAIN questions)) <= 1]_vars

\* Question 0 was created by an initial submission and question 1 by a
\* generated set; a later submission names index 1 with another wording and
\* the row keeps the generated text.
C19_Witness ==
    /\ Returned(1, "answer")
    /\ req[1].question = OtherQuestion
    /\ req[1].question_index = 1
    /\ DOMAIN questions = {<<1, 0>>, <<1, 1>>}
    /\ questions[<<1, 0>>] = MainQuestion
    /\ questions[<<1, 1>>] \in {TemplateQuestion(t) : t \in 1..MaxTemplates}

\* C20: two continue_followups calls that have returned for the same
\* question, main answer and list of at least 8 pairs carry the same
\* original_score, followup_scores and average_score, whatever answer_id
\* each was given, whatever the store held while each ran and whichever
\* prompts the generator drew.
C20_SameInputsSameScores ==
    \A p, q \in Procs :
        (/\ Returned(p, "continue") /\ Returned(q, "continue")
         /\ req[p].question = req[q].question
         /\ req[p].main_answer = req[q].main_answer
         /\ req[p].followup_pairs = req[q].followup_pairs
         /\ Len(req[p].followup_pairs) >= 8)
        => /\ resp[p].original_score = resp[q].original_score
           /\ resp[p].followup_scores = resp[q].followup_scores
           /\ resp[p].average_score = resp[q].average_score

\* The same eight pairs sent with the id of Answer 1, which holds another
\* main answer and is scored by the call, and sent without an id.
C20_Witness ==
    /\ Returned(1, "continue") /\ Returned(2, "continue")
    /\ req[1].followup_pairs = req[2].followup_pairs
    /\ Len(req[1].followup_pairs) = 8
    /\ req[1].answer_id = 1
    /\ req[2].answer_id = Null
    /\ Len(answers) >= 1
    /\ answers[1].answer_text = WeakAnswer
    /\ answers[1].final_score # Null
    /\ resp[1].average_score = resp[2].average_score

\* C21: for every question and answer the independent scorer and the scorer
\* of the one-shot finalization return a score from 0.0 to 10.0, a whole
\* number of tenths.
C21_ScoreInRange ==
    calc.fn \in {"evaluate_answer_individually", "evaluate_single_answer_with_attachment"}
    => calc.result.score \in 0..100

\* One word that takes up none of five question terms: the raw score is
\* below zero and the score is 0.0
C21_Witness ==
    /\ calc.fn = "evaluate_answer_individually"
    /\ calc.answer.words = 1
    /\ Cardinality(calc.question.terms) = 5
    /\ calc.answer.contains = {}
    /\ calc.result.score = 0

\* C22: the coverage penalty is 0 when the question has no qualifying term
\* or at least 60% of its terms occur in the answer, 1 when at least 30% and
\* less than 60% occur, 2 when less than 30% occur.
C22_CoveragePenaltyTiers ==
    calc.fn = "_coverage_penalty" =>
        LET n == Cardinality(calc.question.terms)
            m == Cardinality(calc.question.terms \cap calc.answer.contains)
        IN  /\ n = 0 => calc.result = 0
            /\ (n > 0 /\ 100 * m >= 60 * n) => calc.result = 0
            /\ (n > 0 /\ 100 * m >= 30 * n /\ 100 * m < 60 * n) => calc.result = 1
            /\ (n > 0 /\ 100 * m < 30 * n) => calc.result = 2

\* Three of five terms, exactly 60%: penalty 0
C22_Witness ==
    /\ calc.fn = "_coverage_penalty"
    /\ Cardinality(calc.question.terms) = 5
    /\ Cardinality(calc.question.terms \cap calc.answer.contains) = 3
    /\ calc.result = 0

\* C24: one call of generate_question_set returns count limited to [1, 10]
\* questions, no two of them equal; the endpoint asks for 10 when the
\* payload has no count.
C24_QuestionSetSize ==
    calc.fn = "generate_question_set" =>
        /\ Len(calc.result) = Max(1, Min(calc.count, 10))
        /\ calc.raw_count = Null => Len(calc.result) = 10
        /\ \A i, j \in 1..Len(calc.result) :
              calc.result[i] = calc.result[j] => i = j

C24_Witness ==
    /\ calc.fn = "generate_question_set"
    /\ calc.raw_count = Null
    /\ Len(calc.result) = 10
    /\ calc.result[1] # calc.result[10]

\* C25: _normalize_followup_target gives a value in [1, 8] for every value
\* a caller can send: 8 for a missing or non-numeric one, 8 for one above 8
\* (infinity too), the value itself inside [1, 8], 1 or 8 below 1.
C25_TargetAlwaysInRange ==
    calc.fn = "_normalize_followup_target" =>
        /\ calc.result \in 1..8
        /\ calc.target \in {Null, NonNumeric, Infinity} => calc.result = 8
        /\ (calc.target \notin {Null, NonNumeric, Infinity} /\ calc.target > 8)
           => calc.result = 8
        /\ calc.target \in 1..8 => calc.result = calc.target

\* C23: the prompt the client was given at its n-th turn (n = 0 from the
\* initial submission, n = 1..7 from the continuation calls) is one of the 4
\* variations of category n mod 10, so the prompts of one flow come from
\* pairwise distinct categories, whichever variations were drawn.
C23_CategoriesCycle ==
    LET prompts == [i \in 1..Len(client.pairs) |-> client.pairs[i].question]
    IN  /\ \A i \in 1..Len(prompts) :
              /\ prompts[i].category = (i - 1) % 10
              /\ prompts[i].variation \in 1..NumVariations
        /\ \A i, j \in 1..Len(prompts) :
              prompts[i].category = prompts[j].category => i = j
        /\ (client.phase = "talking" /\ pc[1] = "done" /\ resp[1].needs_followups)
           => /\ resp[1].follow_ups[1].category = (resp[1].followup_index - 1) % 10
              /\ \A i \in 1..Len(prompts) :
                    prompts[i].category # resp[1].follow_ups[1].category

C23_Witness ==
    /\ Len(client.pairs) = 8
    /\ {client.pairs[i].question.category : i \in 1..8} = 0..7
    /\ client.pairs[1].question.variation # client.pairs[2].question.variation

\* C26: no step of a continuation request that does not finalize changes an
\* Answer that has its final score, or one of the FollowUp rows of that
\* Answer.
C26_FinalizedIsFinal ==
    [][\A p \in Procs :
          (/\ req[p].op = "continue"
           /\ pc'[p] # pc[p]
           /\ ~should_finalize(p)
           /\ AnswerExists(req[p].answer_id)
           /\ answers[req[p].answer_id].final_score # Null)
          => /\ answers'[req[p].answer_id] = answers[req[p].answer_id]
             /\ \A k \in RowsOf(req[p].answer_id) : followups'[k] = followups[k]]_vars

\* C27: once a continuation request for an existing Answer has returned,
\* completed_followups of the Answer is the number of its FollowUp rows with
\* a non-empty answer_text.
C27_CompletedCountsAnsweredRows ==
    \A p \in Procs :
        (Returned(p, "continue") /\ AnswerExists(req[p].answer_id))
        => answers[req[p].answer_id].completed_followups =
              Cardinality({k \in RowsOf(req[p].answer_id) :
                              followups[k].answer_text # EmptyText})

\* C28: no step of a continuation request with fewer than 8 pairs changes
\* the initial_score, final_score or average_score that its Answer already
\* has, however the database calls of the requests interleave.
C28_ScoresSurviveStaleSave ==
    [][\A p \in Procs :
          (/\ req[p].op = "continue"
           /\ pc'[p] # pc[p]
           /\ asked_count(p) < 8
           /\ AnswerExists(req[p].answer_id))
          => LET before == answers[req[p].answer_id]
                 after == answers'[req[p].answer_id]
             IN  /\ before.initial_score # Null => after.initial_score = before.initial_score
                 /\ before.final_score # Null => after.final_score = before.final_score
                 /\ before.average_score # Null
                       => after.average_score = before.average_score]_vars

\* C29: when no request is being served, every FollowUp row that has a
\* score has the score the independent scorer gives the question_text and
\* answer_text stored in that row.
C29_RowScoreMatchesRowText ==
    (\A p \in Procs : Idle(p))
    => \A k \in DOMAIN followups :
          followups[k].score # Null
          => followups[k].score =
                evaluate_answer_individually(followups[k].question_text,
                                             followups[k].answer_text).score

\* C30: a continuation request with a well-formed payload whose answer_id
\* matches no Answer changes nothing in the store and ends with the response
\* of the same request with a valid answer_id: needs_followups and
\* followup_index from the number of pairs, and at finalization the scores
\* of the submitted texts.
C30_UnknownAnswerIdIgnored ==
    [][\A p \in Procs :
          (/\ req'[p].op = "continue"
           /\ pc'[p] # pc[p]
           /\ WellFormed(req'[p])
           /\ req'[p].target_followups # Infinity
           /\ Truthy(req'[p].answer_id)
           /\ ~AnswerExists(req'[p].answer_id))
          => /\ store' = store
             /\ pc'[p] \in {"done", "rejected", "raised"}
                   => /\ pc'[p] = "done"
                      /\ resp'[p].needs_followups = ~should_finalize(p)
                      /\ resp'[p].followup_index =
                            IF should_finalize(p) THEN asked_count(p)
                            ELSE asked_count(p) + 1
                      /\ should_finalize(p)
                            => /\ resp'[p].original_score = original_eval(p).score
                               /\ resp'[p].followup_scores = followup_scores(p)
                               /\ resp'[p].final_score \in
                                     calculate_average_score(original_eval(p).score,
                                                             followup_scores(p))]_vars

\* C31: however the database calls of initial submissions and question-set
\* generations interleave, no two Session rows have the same (username,
\* topic, language), and every initial submission that has returned carries
\* the id of the Answer it persisted.
C31_OneSessionPerKey ==
    /\ \A i, j \in 1..Len(sessions) : sessions[i] = sessions[j] => i = j
    /\ \A p \in Procs : Returned(p, "answer") => AnswerExists(resp[p].answer_id)

\* C32: finalize_followups scores the main answer like the independent
\* scorer with min(1.0, 0.25 * n) added to the raw score for a list of n
\* pairs, clamped to [0, 10] and rounded to one decimal (an empty main answer
\* scores 0.0); with no pair the score and feedback are those of
\* evaluate_answer_individually; the possible final scores are the same for
\* every list of n pairs, whatever the pairs hold.
C32_FinalizeAddsCappedBonus ==
    calc.fn = "finalize_followups" =>
        LET n == Len(calc.followup_pairs)
            answer == calc.main_answer
            raw_score == Min(300, 4 * answer.words)
                         + (IF answer.endings >= 2 THEN 60 ELSE 0)
                         + (IF answer.newline THEN 30 ELSE 0)
                         - 60 * _coverage_penalty(calc.question, answer)
            followup_bonus == Min(60, 15 * n)
            individually == evaluate_answer_individually(calc.question, answer)
        IN  /\ calc.result.final_score = calc.result.evaluation.score
            /\ calc.result.feedback = calc.result.evaluation.feedback
            /\ IF answer.words = 0
               THEN calc.result.final_score = 0
               ELSE /\ calc.result.final_score \in
                          {Max(0, Min(100, rounded)) :
                              rounded \in RoundTenthsSet(raw_score + followup_bonus)}
                    /\ calc.result.feedback = FeedbackTier(calc.result.final_score)
            /\ n = 0 => /\ calc.result.final_score = individually.score
                        /\ calc.result.feedback = individually.feedback
            /\ \A version \in 1..2 :
                  calc.result.final_score \in
                     {other.final_score :
                         other \in finalize_followups(calc.question, answer,
                                                      PairList(n, version))}

\* Five pairs in the second wording after a 45-word answer that takes up the
\* question and has no sentence ending: 3.0 and the full bonus of 1.0
C32_Witness ==
    /\ calc.fn = "finalize_followups"
    /\ calc.followup_pairs = PairList(5, 2)
    /\ calc.main_answer.words = 45
    /\ calc.main_answer.endings = 0
    /\ ~calc.main_answer.newline
    /\ _coverage_penalty(calc.question, calc.main_answer) = 0
    /\ calc.result.final_score = 40

\* C33: the independent scorer returns at most 6.5 and the scorer of the
\* one-shot finalization at most 7.5, neither returns the feedback of the
\* top tier, and the average of scores of the independent scorer is at most
\* 6.5.
C33_TopTierNeverReached ==
    /\ calc.fn = "evaluate_answer_individually"
          => /\ calc.result.score <= 65
             /\ calc.result.feedback # "strong"
    /\ calc.fn = "evaluate_single_answer_with_attachment"
          => /\ calc.result.score <= 75
             /\ calc.result.feedback # "strong"
    /\ calc.fn = "finalize_followups"
          => /\ calc.result.final_score <= 75
             /\ calc.result.feedback # "strong"
    /\ calc.fn = "calculate_average_score" => calc.result <= 65

\* 150 words with two sentence endings and a line break that take up every
\* term of the question, after four pairs: 5.0 + 1.5 + 1.0 = 7.5, feedback
\* of the middle tier
C33_Witness ==
    /\ calc.fn = "evaluate_single_answer_with_attachment"
    /\ calc.answer.words = 150
    /\ calc.answer.endings = 2
    /\ calc.answer.newline
    /\ calc.sub_dialogue = 4
    /\ calc.result.score = 75
    /\ calc.result.feedback = "reasonable"
====
